---------------------------- MODULE Spec2Model ----------------------------
(***************************************************************************)
(* Communication-RAG (src/app.py): the indexing and retrieval pipeline.    *)
(*                                                                         *)
(* One process holds the two st.cache_resource singletons (the Chroma      *)
(* client and the collection handle).  Two Streamlit sessions run in it:   *)
(* one calls rebuild_index, the other calls query_index.  The persisted    *)
(* store (DB_DIR) and the data directory (DATA_DIR) are the environment:   *)
(* the store may already hold a collection "docs" written by an earlier    *)
(* process.                                                                *)
(*                                                                         *)
(* A page's raw text is the sequence of its words' lengths; its normalized *)
(* text " ".join(raw.split()) is known by its length, and a chunk by the   *)
(* character range of the normalized text it holds.                        *)
(***************************************************************************)
EXTENDS Integers, Sequences, FiniteSets, TLC

\* ------------------------------------------------------------ bounds ----

\* rebuild_index calls made in one behaviour
MaxRebuilds == 2
\* query_index calls made in one behaviour
MaxQueries == 2
\* the largest result count k a query asks for (the slider gives 1..10)
MaxK == 3
\* question embeddings 0..MaxQ
MaxQ == 1
\* chunks the process can hold in rebuild_index's lists before the
\* interpreter raises MemoryError
MemLimit == 5

\* --------------------------------------------------- program constants --

chunk_size == 900
overlap == 150

COLLECTION == "docs"

\* ------------------------------------------------------- the inputs -----

PdfNames == <<"a.pdf", "b.pdf">>

Pdf(readable, pages) == [readable |-> readable, pages |-> pages]

\* a.pdf: "Hello world", ""  b.pdf: "Goodbye"
DirScenario ==
    [n \in {"a.pdf", "b.pdf"} |->
        IF n = "a.pdf" THEN Pdf(TRUE, << <<5, 5>>, <<>> >>)
                       ELSE Pdf(TRUE, << <<7>> >>)]

\* a.pdf cannot be read, b.pdf can
DirCorrupt ==
    [n \in {"a.pdf", "b.pdf"} |->
        IF n = "a.pdf" THEN Pdf(FALSE, << >>)
                       ELSE Pdf(TRUE, << <<7>> >>)]

\* only pages without text
DirBlank == [n \in {"a.pdf"} |-> Pdf(TRUE, << <<>>, <<>> >>)]

\* a blank page, then a page of 1801 characters, then one of 150
DirLong ==
    [n \in {"b.pdf"} |-> Pdf(TRUE, << <<>>, <<900, 900>>, <<100, 49>> >>)]

\* a page of exactly chunk_size characters, and one of chunk_size + 1
DirEdge ==
    [n \in {"a.pdf", "b.pdf"} |->
        IF n = "a.pdf" THEN Pdf(TRUE, << <<900>> >>)
                       ELSE Pdf(TRUE, << <<450, 450>> >>)]

\* no PDF at all
DirEmpty == [n \in {} |-> Pdf(TRUE, << >>)]

Dirs == {DirEmpty, DirBlank, DirScenario, DirCorrupt, DirLong, DirEdge}

\* ------------------------------------------------- chunks, ids, rows ----

Min(a, b) == IF a < b THEN a ELSE b
Max(a, b) == IF a > b THEN a ELSE b

RECURSIVE SumSeq(_)
SumSeq(s) == IF s = <<>> THEN 0 ELSE Head(s) + SumSeq(Tail(s))

\* len(" ".join(raw.split())): the words, one space between two
NormLen(raw) == IF raw = <<>> THEN 0 ELSE SumSeq(raw) + Len(raw) - 1

\* the bounds of text[lo:hi] for a text of length n, as Python clamps them
PyIndex(x, n) == IF x < 0 THEN Max(0, x + n) ELSE Min(x, n)
Slice(lo, hi, n) ==
    LET a == PyIndex(lo, n)
        b == PyIndex(hi, n)
    IN  [from |-> a, to |-> Max(a, b)]

MkMeta(name, page) ==
    [file |-> name, path |-> "data/" \o name, page |-> page]

\* the chunk's text: which characters of which page
MkDoc(name, page, lo, hi, n) ==
    [file |-> name, page |-> page, span |-> Slice(lo, hi, n)]

MkId(meta, n) ==
    meta.file \o "|p" \o ToString(meta.page) \o "|" \o ToString(n)

\* the embedding capability: a text's vector
Embed(doc) == (doc.span.to - doc.span.from + doc.page) % 3

Abs(x) == IF x < 0 THEN -x ELSE x
Distance(q, vec) == Abs(vec - q)

MkRow(id, doc, meta) ==
    [id |-> id, doc |-> doc, meta |-> meta, vec |-> Embed(doc)]

\* what an earlier process may have left in collection "docs"
OldRow(page, n, len) ==
    MkRow(MkId(MkMeta("old.pdf", page), n),
          MkDoc("old.pdf", page, 0, len, len),
          MkMeta("old.pdf", page))

OldRows == {OldRow(1, 0, 4), OldRow(1, 1, 5), OldRow(2, 2, 6)}


\* ------------------------------------------------------------ state -----

VARIABLES
    dataDir,     \* DATA_DIR: file name -> PDF
    liveGen,     \* the store: the collection "docs" (its uuid), 0 when none
    rows,        \* the store: the rows of collection liveGen
    genCount,    \* the store: collections created so far
    clientCached,\* st.cache_resource of get_client holds a client
    cachedCol,   \* st.cache_resource of get_collection: the handle, 0 when none
    rpc,         \* rebuild_index: where the call is
    rexc,        \* rebuild_index: the exception that ended the call
    col,         \* rebuild_index: col
    texts,       \* rebuild_index: texts
    metadatas,   \* rebuild_index: metadatas
    ids,         \* rebuild_index: ids
    i,           \* rebuild_index: i
    ret,         \* rebuild_index: the value returned
    fileNo,      \* load_pdfs: position in pdf_paths (0 before the first)
    pageNo,      \* load_pdfs: page_num
    start,       \* load_pdfs: start
    inLoop,      \* load_pdfs: the while condition held when last evaluated
    qpc,         \* query_index: where the call is
    qexc,        \* query_index: the exception that ended the call
    qcol,        \* query_index: col
    qq,          \* query_index: q (its embedding)
    qk,          \* query_index: k
    qres,        \* query_index: res
    hits,        \* query_index: hits
    qseen,       \* history: the rows of the collection the query searched
    runs,        \* history: rebuild_index calls started
    queries,     \* history: query_index calls started
    before,      \* history: the store when the running rebuild_index began
    runLog,      \* history: how each ended rebuild_index call ended
    qOverlap     \* history: the query ran while a rebuild_index call ran

storeVars == <<liveGen, rows, genCount>>
cacheVars == <<clientCached, cachedCol>>
loadVars == <<fileNo, pageNo, start, inLoop>>
listVars == <<texts, metadatas, ids, i>>
rebuildVars == <<rpc, rexc, col, ret, runs, before, runLog>>
queryVars == <<qpc, qexc, qcol, qq, qk, qres, hits, qseen, queries>>

vars == <<dataDir, storeVars, cacheVars, loadVars, listVars, rebuildVars,
          queryVars, qOverlap>>

NoRes == [ids |-> <<>>, documents |-> <<>>, metadatas |-> <<>>,
          distances |-> <<>>]

Init ==
    /\ dataDir \in Dirs
    /\ \E old \in {"none", "empty", "rows"} :
          /\ liveGen = IF old = "none" THEN 0 ELSE 1
          /\ genCount = IF old = "none" THEN 0 ELSE 1
          /\ rows = IF old = "rows" THEN OldRows ELSE {}
    /\ clientCached = FALSE
    /\ cachedCol = 0
    /\ rpc = "idle"
    /\ rexc = "none"
    /\ col = 0
    /\ texts = <<>>
    /\ metadatas = <<>>
    /\ ids = <<>>
    /\ i = 0
    /\ ret = 0
    /\ fileNo = 0
    /\ pageNo = 0
    /\ start = 0
    /\ inLoop = FALSE
    /\ qpc = "idle"
    /\ qexc = "none"
    /\ qcol = 0
    /\ qq = 0
    /\ qk = 0
    /\ qres = NoRes
    /\ hits = <<>>
    /\ qseen = {}
    /\ runs = 0
    /\ queries = 0
    /\ before = [gen |-> 0, rows |-> {}, made |-> 0]
    /\ runLog = <<>>
    /\ qOverlap = FALSE

\* ------------------------------------------------------ the store -------

\* delete_collection left out: the collection and its rows stay
DeleteCollectionSkipped(gen, rs) ==
    [raised |-> FALSE, gen |-> gen, rows |-> rs]

\* client.delete_collection(COLLECTION): raises when there is none
DeleteCollection(gen, rs) ==
    IF gen = 0
        THEN [raised |-> TRUE, gen |-> gen, rows |-> rs]
        ELSE [raised |-> FALSE, gen |-> 0, rows |-> {}]

\* client.get_or_create_collection(COLLECTION, ...)
GetOrCreateCollection(gen, rs, made) ==
    IF gen # 0
        THEN [handle |-> gen, gen |-> gen, rows |-> rs, made |-> made]
        ELSE [handle |-> made + 1, gen |-> made + 1, rows |-> {},
              made |-> made + 1]

\* get_collection(client) under st.cache_resource: the body runs on the
\* first call only, later calls are handed the cached object
GetCollection(cached, gen, rs, made) ==
    IF cached # 0
        THEN [handle |-> cached, gen |-> gen, rows |-> rs, made |-> made]
        ELSE GetOrCreateCollection(gen, rs, made)

\* a handle names its collection by uuid: it works while that collection
\* exists, and the store raises for a handle whose collection was deleted
Live(handle) == handle # 0 /\ handle = liveGen

RebuildRunning == rpc \in {"deleted", "loading"}
QueryRunning == qpc = "got"

\* ------------------------------------------------------- load_pdfs ------

\* sorted(DATA_DIR.glob("*.pdf"))
Paths == SelectSeq(PdfNames, LAMBDA n : n \in DOMAIN dataDir)

CurName == Paths[fileNo]
CurPages == dataDir[CurName].pages
\* len(text) of the page the generator is at
CurLen == NormLen(CurPages[pageNo])

\* for page_num, page in enumerate(reader.pages, start=1): no page is left
PagesDone == IF fileNo = 0 THEN TRUE ELSE pageNo = Len(CurPages)

\* for pdf_path in pdf_paths: no path is left
Exhausted == fileNo = Len(Paths) /\ PagesDone

\* end = min(len(text), start + chunk_size)
ChunkEnd(s, n) == Min(n, s + chunk_size)

\* start = end - overlap
NextStart(e) == e - overlap

\* while start < len(text)
WhileCond(s, n) == s < n

\* how a rebuild_index call that ended is remembered
Ended(how, rs) == Append(runLog, [how |-> how, ids |-> {r.id : r \in rs}])

\* ---------------------------------------------------- rebuild_index -----

\* lines 68-74: the client, then delete_collection with its error swallowed
RebuildStart ==
    /\ rpc \in {"idle", "returned", "raised"}
    /\ runs < MaxRebuilds
    /\ LET d == DeleteCollection(liveGen, rows)
       IN  /\ liveGen' = d.gen
           /\ rows' = d.rows
    /\ before' = [gen |-> liveGen, rows |-> rows, made |-> genCount]
    /\ clientCached' = TRUE
    /\ rpc' = "deleted"
    /\ rexc' = "none"
    /\ runs' = runs + 1
    /\ col' = 0
    /\ ret' = 0
    /\ texts' = <<>>
    /\ metadatas' = <<>>
    /\ ids' = <<>>
    /\ i' = 0
    /\ fileNo' = 0
    /\ pageNo' = 0
    /\ start' = 0
    /\ inLoop' = FALSE
    /\ qOverlap' = (qOverlap \/ QueryRunning)
    /\ UNCHANGED <<dataDir, genCount, cachedCol, runLog, queryVars>>

\* lines 75-79: col = get_collection(client), the empty lists, the generator
RebuildGetCollection ==
    /\ rpc = "deleted"
    /\ LET g == GetCollection(cachedCol, liveGen, rows, genCount)
       IN  /\ col' = g.handle
           /\ cachedCol' = g.handle
           /\ liveGen' = g.gen
           /\ rows' = g.rows
           /\ genCount' = g.made
    /\ rpc' = "loading"
    /\ qOverlap' = (qOverlap \/ QueryRunning)
    /\ UNCHANGED <<dataDir, clientCached, rexc, ret, runs, before, runLog,
                   listVars, loadVars, queryVars>>

\* lines 44-45: the next path, PdfReader(str(pdf_path)); its error is not caught
LoadOpen ==
    /\ rpc = "loading"
    /\ ~inLoop
    /\ PagesDone
    /\ fileNo < Len(Paths)
    /\ fileNo' = fileNo + 1
    /\ pageNo' = 0
    /\ IF dataDir[Paths[fileNo + 1]].readable
          THEN UNCHANGED <<rpc, rexc, runLog>>
          ELSE /\ rpc' = "raised"
               /\ rexc' = "PdfReadError"
               /\ runLog' = Ended("PdfReadError", IF liveGen = 0 THEN {} ELSE rows)
    /\ qOverlap' = (qOverlap \/ QueryRunning)
    /\ UNCHANGED <<dataDir, storeVars, cacheVars, col, ret, runs, before,
                   listVars, start, inLoop, queryVars>>

\* lines 46-54: the next page, its normalized text, start = 0
LoadPage ==
    /\ rpc = "loading"
    /\ ~inLoop
    /\ fileNo >= 1
    /\ pageNo < Len(CurPages)
    /\ pageNo' = pageNo + 1
    /\ start' = 0
    /\ inLoop' = WhileCond(0, NormLen(CurPages[pageNo + 1]))
    /\ qOverlap' = (qOverlap \/ QueryRunning)
    /\ UNCHANGED <<dataDir, storeVars, cacheVars, rebuildVars, listVars,
                   fileNo, queryVars>>

\* lines 55-63 and 80-83: one chunk is yielded and appended to the lists
LoadChunk ==
    /\ rpc = "loading"
    /\ inLoop
    /\ LET end == ChunkEnd(start, CurLen)
           meta == MkMeta(CurName, pageNo)
       IN  /\ IF Len(texts) < MemLimit
                 THEN /\ texts' = Append(texts,
                                     MkDoc(CurName, pageNo, start, end, CurLen))
                      /\ metadatas' = Append(metadatas, meta)
                      /\ ids' = Append(ids, MkId(meta, i))
                      /\ i' = i + 1
                      /\ UNCHANGED <<rpc, rexc, runLog>>
                 ELSE /\ rpc' = "raised"
                      /\ rexc' = "MemoryError"
                      /\ runLog' = Ended("MemoryError",
                                         IF liveGen = 0 THEN {} ELSE rows)
                      /\ UNCHANGED listVars
           /\ start' = NextStart(end)
           /\ inLoop' = WhileCond(NextStart(end), CurLen)
    /\ qOverlap' = (qOverlap \/ QueryRunning)
    /\ UNCHANGED <<dataDir, storeVars, cacheVars, col, ret, runs, before,
                   fileNo, pageNo, queryVars>>

\* col.add(documents=texts, metadatas=metadatas, ids=ids)
AddRows(rs) ==
    rs \cup {MkRow(ids[n], texts[n], metadatas[n]) : n \in 1..Len(texts)}

\* lines 85-87: the generator is exhausted; add when there is a chunk, return
RebuildFinish ==
    /\ rpc = "loading"
    /\ ~inLoop
    /\ Exhausted
    /\ IF texts # <<>> /\ ~Live(col)
          THEN /\ rpc' = "raised"
               /\ rexc' = "CollectionNotFound"
               /\ runLog' = Ended("CollectionNotFound",
                                  IF liveGen = 0 THEN {} ELSE rows)
               /\ UNCHANGED <<rows, ret>>
          ELSE /\ rows' = IF texts # <<>> THEN AddRows(rows) ELSE rows
               /\ ret' = Len(texts)
               /\ rpc' = "returned"
               /\ runLog' = Ended("returned",
                                  IF liveGen = 0 THEN {}
                                  ELSE IF texts # <<>> THEN AddRows(rows)
                                  ELSE rows)
               /\ UNCHANGED rexc
    /\ qOverlap' = (qOverlap \/ QueryRunning)
    /\ UNCHANGED <<dataDir, liveGen, genCount, cacheVars, col, runs, before,
                   listVars, loadVars, queryVars>>

\* ------------------------------------------------------ query_index -----

\* n_results=max(1, k)
NResults(k) == Max(1, k)

Range(f) == {f[j] : j \in DOMAIN f}

\* col.query(query_texts=[q], n_results=n, include=[...]): the answers the
\* store may give, the n nearest rows by ascending distance, as parallel lists
StoreQuery(rs, q, n) ==
    LET m == Min(n, Cardinality(rs))
        Near(s) ==
            /\ \A a, b \in 1..m : a < b =>
                  /\ s[a] # s[b]
                  /\ Distance(q, s[a].vec) <= Distance(q, s[b].vec)
            /\ \A r \in rs \ Range(s) : \A a \in 1..m :
                  Distance(q, s[a].vec) <= Distance(q, r.vec)
    IN  { [ids |-> << [j \in 1..m |-> s[j].id] >>,
           documents |-> << [j \in 1..m |-> s[j].doc] >>,
           metadatas |-> << [j \in 1..m |-> s[j].meta] >>,
           distances |-> << [j \in 1..m |-> Distance(q, s[j].vec)] >>]
          : s \in {t \in [1..m -> rs] : Near(t)} }

\* the hits with the ids taken from the far end of the store's list
NormalizeIdsReversed(res) ==
    IF res.documents = <<>>
        THEN <<>>
        ELSE LET docs == res.documents[1]
                 metas == res.metadatas[1]
                 dists == res.distances[1]
                 rids == res.ids[1]
                 n == Min(Min(Len(docs), Len(metas)), Min(Len(dists), Len(rids)))
             IN  [j \in 1..n |-> [text |-> docs[j], meta |-> metas[j],
                                  score |-> dists[j], id |-> rids[n + 1 - j]]]

\* lines 94-101: zip(docs, metas, dists, ids) into the hit records
Normalize(res) ==
    IF res.documents = <<>>
        THEN <<>>
        ELSE LET docs == res.documents[1]
                 metas == res.metadatas[1]
                 dists == res.distances[1]
                 rids == res.ids[1]
                 n == Min(Min(Len(docs), Len(metas)), Min(Len(dists), Len(rids)))
             IN  [j \in 1..n |-> [text |-> docs[j], meta |-> metas[j],
                                  score |-> dists[j], id |-> rids[j]]]

\* lines 89-91: the client and col = get_collection(client)
QueryStart ==
    /\ qpc \in {"idle", "returned", "raised"}
    /\ queries < MaxQueries
    /\ \E q \in 0..MaxQ, k \in 1..MaxK :
          /\ qq' = q
          /\ qk' = k
    /\ LET g == GetCollection(cachedCol, liveGen, rows, genCount)
       IN  /\ qcol' = g.handle
           /\ cachedCol' = g.handle
           /\ liveGen' = g.gen
           /\ rows' = g.rows
           /\ genCount' = g.made
    /\ clientCached' = TRUE
    /\ qpc' = "got"
    /\ qexc' = "none"
    /\ qres' = NoRes
    /\ hits' = <<>>
    /\ qseen' = {}
    /\ queries' = queries + 1
    /\ qOverlap' = RebuildRunning
    /\ UNCHANGED <<dataDir, rebuildVars, listVars, loadVars>>

\* lines 92-102: col.query, whose error is not caught, and the hits
QueryCall ==
    /\ qpc = "got"
    /\ \E fails \in BOOLEAN, r \in StoreQuery(rows, qq, NResults(qk)) :
          IF fails \/ ~Live(qcol)
             THEN /\ qpc' = "raised"
                  /\ qexc' = IF Live(qcol) THEN "StoreError"
                                           ELSE "CollectionNotFound"
                  /\ UNCHANGED <<qres, hits, qseen>>
             ELSE /\ qpc' = "returned"
                  /\ qres' = r
                  /\ hits' = Normalize(r)
                  /\ qseen' = rows
                  /\ UNCHANGED qexc
    /\ qOverlap' = (qOverlap \/ RebuildRunning)
    /\ UNCHANGED <<dataDir, storeVars, cacheVars, rebuildVars, listVars,
                   loadVars, qcol, qq, qk, queries>>

Next ==
    \/ RebuildStart
    \/ RebuildGetCollection
    \/ LoadOpen
    \/ LoadPage
    \/ LoadChunk
    \/ RebuildFinish
    \/ QueryStart
    \/ QueryCall

Spec == Init /\ [][Next]_vars

\* ------------------------------------------------------- the claims -----

AllReadable == \A n \in DOMAIN dataDir : dataDir[n].readable

\* the position of chunk n of texts among the chunks of its own page
IntraPageIndex(n) ==
    Cardinality({m \in 1..(n - 1) :
                    /\ texts[m].file = texts[n].file
                    /\ texts[m].page = texts[n].page})

\* C1: rebuild_index terminates for every finite corpus: every iteration of
\* the chunking loop moves start forward, towards len(text), so the loop of
\* a page stops after finitely many chunks and the call reaches its insert.
C1_ChunkLoopAdvances == [][LoadChunk => start' > start]_vars

\* C2: the chunks the loop yields for a page of length L are the reference
\* sliding window and nothing else: the chunk at intra-page position j is
\* text[j*(chunk_size-overlap), min(L, j*(chunk_size-overlap)+chunk_size)),
\* and there is one only for j*(chunk_size-overlap) < L.
C2_ChunksAreReferenceWindows ==
    \A n \in 1..Len(texts) :
        LET d == texts[n]
            L == NormLen(dataDir[d.file].pages[d.page])
            lo == IntraPageIndex(n) * (chunk_size - overlap)
        IN  /\ lo < L
            /\ d.span = [from |-> lo, to |-> Min(L, lo + chunk_size)]

\* C3: query_index never raises: with no collection, with the collection
\* just deleted, and when the store's query fails, it returns a list.
C3_QueryNeverRaises == qpc # "raised"

\* C4: a PDF whose read raises contributes no chunks and does not end the
\* rebuild: no rebuild_index call ends with the reader's error.
C4_ReadErrorIsSkipped == rexc # "PdfReadError"

\* C5: for k >= 1, query_index(q, k) returns at most k hits, in the order
\* the store returned (non-decreasing distance), each hit holding the id,
\* text, metadata and distance of one stored row.
C5_HitsAreStoreRows ==
    qpc = "returned" =>
        /\ qk >= 1 => Len(hits) <= qk
        /\ Len(hits) = Len(qres.ids[1])
        /\ \A j \in 1..Len(hits) :
              /\ hits[j].id = qres.ids[1][j]
              /\ \E r \in qseen :
                    /\ hits[j].id = r.id
                    /\ hits[j].text = r.doc
                    /\ hits[j].meta = r.meta
                    /\ hits[j].score = Distance(qq, r.vec)
        /\ \A a, b \in 1..Len(hits) : a < b => hits[a].score <= hits[b].score

\* a query for two hits that returned two rows at different distances
C5_Witness ==
    /\ qpc = "returned"
    /\ qk = 2
    /\ Len(hits) = 2
    /\ hits[1].score < hits[2].score

\* C6 as stated: with no PDF in the data directory rebuild_index returns 0
\* and every row the collection held before the call is still in it.
C6_EmptyDirKeepsRows ==
    (rpc = "returned" /\ Paths = <<>>) =>
        /\ ret = 0
        /\ before.rows \subseteq rows

\* C6 as amended: with no PDF in the data directory rebuild_index returns 0
\* after deleting the collection it found: "docs" is then missing or a new
\* collection, and holds none of the rows it held before the call.
C6_EmptyDirDropsRows ==
    (rpc = "returned" /\ Paths = <<>>) =>
        /\ ret = 0
        /\ rows = {}
        /\ before.gen # 0 => liveGen # before.gen

\* a rebuild of an empty directory that found rows in the collection
C6_Witness ==
    /\ rpc = "returned"
    /\ Paths = <<>>
    /\ before.rows # {}

\* C7: two rebuild_index calls in a row on the unchanged directory both
\* return, and the collection holds the same ids after the second as after
\* the first.
C7_RebuildTwiceSameIds ==
    (AllReadable /\ Len(runLog) >= 2) =>
        /\ runLog[1].how = "returned"
        /\ runLog[2].how = "returned"
        /\ runLog[1].ids = runLog[2].ids

\* C9: a query that ran while a rebuild_index call ran does not raise for a
\* missing collection, and its hits are rows of one collection.
C9_QueryDuringRebuild ==
    qOverlap =>
        /\ qexc # "CollectionNotFound"
        /\ \A j \in 1..Len(hits) : \E r \in qseen : hits[j].id = r.id

\* C10: every rebuild_index call works on a collection created after its
\* own delete step, and on return "docs" is that collection and holds
\* exactly the chunks of the call.
C10_RebuildUsesFreshCollection ==
    /\ rpc \in {"loading", "returned"} => col > before.made
    /\ rpc = "returned" =>
          /\ Live(col)
          /\ {r.id : r \in rows} = Range(ids)
=============================================================================
